---------------------------- MODULE Spec2Model ----------------------------
(***************************************************************************)
(* A model of rwaybar's reactive core: the wake scheduler and render tick  *)
(* of src/src/state.rs and the tray directory and tray menu client of      *)
(* src/src/tray.rs.                                                        *)
(*                                                                         *)
(* All tasks run on one thread (tokio LocalSet): a step of the model is    *)
(* the code a task or handler runs between two suspension points.          *)
(* A tokio::sync::Notify with a single waiting task is a one-bit permit:   *)
(* notify_one() sets it, the waiter's notified().await clears it.          *)
(* An Option<T> is the set of its values: {} is None, {v} is Some(v).      *)
(***************************************************************************)
EXTENDS Integers, Sequences, FiniteSets, Bags, TLC

VARIABLES
    now,              \* the clock (tokio::time), in whole units
    refresh_time,     \* RefreshState.time : Cell<Option<Instant>>
    refresh_notify,   \* RefreshState.notify : the permit of the wake task
    wake_pc,          \* where the wake task is suspended
    wake_deadline,    \* the local `deadline` of the wake task while it sleeps
    requested,        \* history: deadlines requested since time was last cleared
    notify,           \* Runtime.notify : the permit of the tick task (redraw signal)
    bars,             \* State.bars : Vec<Bar>
    nextSurf,         \* the identity the next layer surface gets (ls_surf)
    ns,               \* where the init task of each watcher namespace is suspended
    items,            \* Tray.items : Cell<Vec<TrayItem>>
    interested,       \* Tray.interested : Cell<NotifierList>
    addTasks,         \* the do_add_item tasks in flight, a bag of [addr, is_kde, pc]
    expected,         \* history: the keys live after the add/remove signals, applied in order
    menu,             \* TrayItem.menu : Rc<Cell<Option<TrayPopupMenu>>>, one item's cache
    rendered_ids,     \* TrayPopup.rendered_ids of each popup descriptor of that item
    fetchTasks,       \* the menu fetch tasks in flight, a bag of their positions
    fetched,          \* history: fetch tasks started and GetLayout calls made
    out,              \* history: the compositor and bus requests the last operation issued
    last              \* history: the operation that ran last and its inputs

wakeVars == <<now, refresh_time, refresh_notify, wake_pc, wake_deadline, requested>>

paintVars == <<bars, nextSurf>>

trayVars == <<ns, items, interested, addTasks, expected>>

menuVars == <<menu, rendered_ids, fetchTasks, fetched>>

vars == <<wakeVars, notify, paintVars, trayVars, menuVars, out, last>>

-----------------------------------------------------------------------------
(* Bounds *)

MaxTime == 3

Instants == 0..MaxTime

\* layer surfaces created over a run
MaxSurfaces == 2

\* tray items at once: the records in Tray.items and the do_add_item tasks
\* in flight
MaxItems == 2

\* extents in the rendered_ids of one popup descriptor
MaxRendered == 2

Min(S) == CHOOSE x \in S : \A y \in S : x <= y

-----------------------------------------------------------------------------
(* Wake scheduler: Runtime::set_wake_at and the wake task of State::new *)

SetWakeAtNeverSkips(time, wake) == FALSE

\* state.rs:70-73, `Some(t) if t < wake => return`
SetWakeAtSkips(time, wake) == \E t \in time : t < wake

\* state.rs:75, the stored deadline after set_wake_at(wake)
SetWakeAtTime(time, wake) == IF SetWakeAtSkips(time, wake) THEN time ELSE {wake}

SetWakeAtForgetsNotify(time, wake, permit) == permit

\* state.rs:76, the wake task's permit after set_wake_at(wake)
SetWakeAtNotify(time, wake, permit) == IF SetWakeAtSkips(time, wake) THEN permit ELSE TRUE

SetWakeAt(wake) ==
    /\ refresh_time' = SetWakeAtTime(refresh_time, wake)
    /\ refresh_notify' = SetWakeAtNotify(refresh_time, wake, refresh_notify)
    /\ requested' = requested \cup {wake}
    /\ last' = [op |-> "set_wake_at", arg |-> wake]
    /\ UNCHANGED menuVars
    /\ UNCHANGED <<now, wake_pc, wake_deadline, notify, paintVars, trayVars, out>>

SleepReadyAtOnce(deadline, t) == deadline # {}

\* tokio::time::sleep_until(deadline) is ready once the clock reached it
SleepReady(deadline, t) == \E d \in deadline : t >= d

\* state.rs:150-164, the top of the loop up to the next await:
\* the await the task suspends at and the deadline it holds there
WakeLoopPc(time) == IF time # {} THEN "select" ELSE "wait"

WakeLoopDeadlineNone(time) == {}

WakeLoopDeadline(time) == time

\* state.rs:147, the task's first poll
WakeStart ==
    /\ wake_pc = "start"
    /\ wake_pc' = WakeLoopPc(refresh_time)
    /\ wake_deadline' = WakeLoopDeadline(refresh_time)
    /\ last' = [op |-> "wake_start", arg |-> 0]
    /\ UNCHANGED menuVars
    /\ UNCHANGED <<now, refresh_time, refresh_notify, requested, notify, paintVars, trayVars, out>>

\* state.rs:157, what Either::Left stores in refresh.time
WakeFiredTime(time) == {}

\* state.rs:155-159, select resolves Left: the sleep elapsed (select polls it first)
WakeSelectLeft ==
    /\ wake_pc = "select"
    /\ SleepReady(wake_deadline, now)
    /\ refresh_time' = WakeFiredTime(refresh_time)
    /\ notify' = TRUE
    /\ requested' = {}
    /\ wake_pc' = WakeLoopPc(refresh_time')
    /\ wake_deadline' = WakeLoopDeadline(refresh_time')
    /\ last' = [op |-> "wake_fire", arg |-> now]
    /\ UNCHANGED menuVars
    /\ UNCHANGED <<now, refresh_notify, paintVars, trayVars, out>>

\* state.rs:160, select resolves Right: the sleep is pending and a permit is there
WakeSelectRight ==
    /\ wake_pc = "select"
    /\ ~SleepReady(wake_deadline, now)
    /\ refresh_notify
    /\ refresh_notify' = FALSE
    /\ wake_pc' = WakeLoopPc(refresh_time)
    /\ wake_deadline' = WakeLoopDeadline(refresh_time)
    /\ last' = [op |-> "wake_preempt", arg |-> now]
    /\ UNCHANGED menuVars
    /\ UNCHANGED <<now, refresh_time, requested, notify, paintVars, trayVars, out>>

\* state.rs:163, no deadline was pending and a permit arrives
WakeWaitNotified ==
    /\ wake_pc = "wait"
    /\ refresh_notify
    /\ refresh_notify' = FALSE
    /\ wake_pc' = WakeLoopPc(refresh_time)
    /\ wake_deadline' = WakeLoopDeadline(refresh_time)
    /\ last' = [op |-> "wake_notified", arg |-> now]
    /\ UNCHANGED menuVars
    /\ UNCHANGED <<now, refresh_time, requested, notify, paintVars, trayVars, out>>

WakeTask == WakeStart \/ WakeSelectLeft \/ WakeSelectRight \/ WakeWaitNotified

\* the clock advances
AdvanceTime ==
    /\ now < MaxTime
    /\ now' = now + 1
    /\ last' = [op |-> "time", arg |-> now + 1]
    /\ UNCHANGED menuVars
    /\ UNCHANGED <<refresh_time, refresh_notify, wake_pc, wake_deadline, requested, notify, paintVars, trayVars, out>>

-----------------------------------------------------------------------------
(* Surfaces and the render tick: State::output_ready, new_bar, set_data,
   draw_now, tick and the tick task of State::new *)

\* wayland.outputs[i].name
Outputs == <<"o1", "o2">>

\* config["bars"]: the optional "name" of each bar configuration
ConfigBars == << {"o1"}, {} >>

\* the sizes a compositor configures
Widths == {0, 1, 3}

Heights == {0, 2}

Serials == {1, 2}

\* state.rs:307-315, the Bar new_bar returns
NewBar(surf, output, cfg) ==
    [id |-> surf, output |-> output, cfg |-> cfg, width |-> 0, height |-> 0, dirty |-> FALSE]

\* state.rs:238-242, whether output i gets a bar of configuration c
CfgMatches(c, i) == \A name \in ConfigBars[c] : name = Outputs[i]

\* state.rs:237-246, the bars output_ready(i) pushes, configurations c..end,
\* the first new surface being surf
RECURSIVE OutputBars(_, _, _)
OutputBars(i, c, surf) ==
    IF c > Len(ConfigBars) THEN <<>>
    ELSE IF CfgMatches(c, i)
         THEN <<NewBar(surf, i, c)>> \o OutputBars(i, c + 1, surf + 1)
         ELSE OutputBars(i, c + 1, surf)

\* state.rs:233-247
OutputReady(i) ==
    LET new == OutputBars(i, 1, nextSurf) IN
    /\ nextSurf + Len(new) - 1 <= MaxSurfaces
    /\ bars' = bars \o new
    /\ nextSurf' = nextSurf + Len(new)
    /\ out' = [k \in 1..Len(new) |-> [req |-> "surface_commit", surf |-> new[k].id]]
    /\ last' = [op |-> "output_ready", arg |-> <<i>>]
    /\ UNCHANGED menuVars
    /\ UNCHANGED <<wakeVars, notify, trayVars>>

ConfigureBarsNotDirty(bs, surf, width, height) ==
    [k \in 1..Len(bs) |->
        IF bs[k].id # surf THEN bs[k]
        ELSE [bs[k] EXCEPT !.width = width, !.height = height]]

\* state.rs:277-287, the bars after configure(serial, width, height) on surf
ConfigureBars(bs, surf, width, height) ==
    [k \in 1..Len(bs) |->
        IF bs[k].id # surf THEN bs[k]
        ELSE [bs[k] EXCEPT !.width = width, !.height = height, !.dirty = TRUE]]

\* state.rs:285, one ack_configure per bar the event matched
ConfigureAcks(bs, surf, serial) ==
    LET hit == SelectSeq(bs, LAMBDA b : b.id = surf) IN
    [k \in 1..Len(hit) |-> [req |-> "ack_configure", surf |-> surf, serial |-> serial]]

RequestDrawDropsPending(permit) == ~permit

\* state.rs:182-184, notify_one: the permit is stored, one at most
RequestDrawPermit(permit) == TRUE

\* state.rs:276-289, Event::Configure on the layer surface surf
Configure(surf, serial, width, height) ==
    /\ surf < nextSurf
    /\ bars' = ConfigureBars(bars, surf, width, height)
    /\ out' = ConfigureAcks(bars, surf, serial)
    /\ notify' = RequestDrawPermit(notify)
    /\ last' = [op |-> "configure", arg |-> <<surf, serial, width, height>>]
    /\ UNCHANGED menuVars
    /\ UNCHANGED <<wakeVars, nextSurf, trayVars>>

ClosedBarsKeepsAll(bs, surf) == bs

\* state.rs:291-299
ClosedBars(bs, surf) == SelectSeq(bs, LAMBDA b : b.id # surf)

\* state.rs:290-300, Event::Closed on the layer surface surf
Closed(surf) ==
    /\ surf < nextSurf
    /\ bars' = ClosedBars(bars, surf)
    /\ out' = LET hit == SelectSeq(bars, LAMBDA b : b.id = surf) IN
              [k \in 1..Len(hit) |-> [req |-> "destroy", surf |-> surf]]
    /\ last' = [op |-> "closed", arg |-> <<surf>>]
    /\ UNCHANGED menuVars
    /\ UNCHANGED <<wakeVars, notify, nextSurf, trayVars>>

\* state.rs:182-184, and every other notify_one on Runtime.notify
RequestDraw ==
    /\ notify' = RequestDrawPermit(notify)
    /\ out' = <<>>
    /\ last' = [op |-> "request_draw", arg |-> <<>>]
    /\ UNCHANGED menuVars
    /\ UNCHANGED <<wakeVars, paintVars, trayVars>>

\* state.rs:324-326
SetData(bs) == [k \in 1..Len(bs) |-> [bs[k] EXCEPT !.dirty = TRUE]]

\* cairo::Format::ARgb32.stride_for_width: four bytes a pixel
StrideForWidth(width) == 4 * width

BarLenNoStride(bar) == IF bar.dirty THEN bar.height * bar.width ELSE 0

\* state.rs:190-195
BarLen(bar) == IF bar.dirty THEN bar.height * StrideForWidth(bar.width) ELSE 0

\* state.rs:187-198, shm_size after the first n bars
RECURSIVE ShmSize(_, _)
ShmSize(bs, n) == IF n = 0 THEN 0 ELSE ShmSize(bs, n - 1) + BarLen(bs[n])

ShmPosAllAtZero(bs) == [k \in 1..Len(bs) |-> <<0, BarLen(bs[k])>>]

\* state.rs:188-198, shm_pos
ShmPos(bs) == [k \in 1..Len(bs) |-> <<ShmSize(bs, k - 1), BarLen(bs[k])>>]

\* state.rs:206-228, what the loop issues for bars k..end
RECURSIVE PaintLog(_, _)
PaintLog(bs, k) ==
    IF k > Len(bs) THEN <<>>
    ELSE IF ~bs[k].dirty THEN PaintLog(bs, k + 1)
    ELSE << [req |-> "render", surf |-> bs[k].id, pos |-> ShmPos(bs)[k][1], len |-> ShmPos(bs)[k][2]],
            [req |-> "attach", surf |-> bs[k].id, pos |-> ShmPos(bs)[k][1]],
            [req |-> "commit", surf |-> bs[k].id] >> \o PaintLog(bs, k + 1)

\* state.rs:200-202
DrawNowReturnsEarly(bs) == ShmSize(bs, Len(bs)) = 0

\* state.rs:186-231, the requests draw_now issues
DrawNowLog(bs) ==
    IF DrawNowReturnsEarly(bs) THEN <<>>
    ELSE <<[req |-> "resize", size |-> ShmSize(bs, Len(bs))]>> \o PaintLog(bs, 1) \o <<[req |-> "flush"]>>

\* state.rs:186-231, the bars draw_now leaves
DrawNowBars(bs) ==
    IF DrawNowReturnsEarly(bs) THEN bs
    ELSE [k \in 1..Len(bs) |-> [bs[k] EXCEPT !.dirty = FALSE]]

\* state.rs:329-332
TickBars(bs) == DrawNowBars(SetData(bs))

TickLogPaintsFirst(bs) == DrawNowLog(SetData(bs)) \o <<[req |-> "update"]>>

\* state.rs:329-332, the requests of tick(): set_data, then draw_now
TickLog(bs) == <<[req |-> "update"]>> \o DrawNowLog(SetData(bs))

\* state.rs:171-176, the tick task: the redraw signal is consumed, then tick()
TickTask ==
    /\ notify
    /\ notify' = FALSE
    /\ bars' = TickBars(bars)
    /\ out' = TickLog(bars)
    /\ last' = [op |-> "tick", arg |-> <<>>]
    /\ UNCHANGED menuVars
    /\ UNCHANGED <<wakeVars, nextSurf, trayVars>>

InitPaint ==
    /\ bars = <<>>
    /\ nextSurf = 1
    /\ out = <<>>

-----------------------------------------------------------------------------
(* Tray directory: init, do_add_item, do_del_item, handle_item_update,
   show and do_click of tray.rs.  A string is the sequence of its characters.
   The owner of an item is taken to be the name its signals carry as sender. *)

\* tray.rs:49
Namespaces == {"kde", "freedesktop"}

\* the Runtime contexts that render the tray
Ctx == {"rt1", "rt2"}

\* the item addresses the watcher reports
Addrs == { <<"a", "/", "p">>, <<"a", "/", "p", "/", "q">>, <<"a", "p">> }

\* tray.rs:113, 414
SniPath(is_kde) ==
    IF is_kde THEN "org.kde.StatusNotifierItem" ELSE "org.freedesktop.StatusNotifierItem"

Str(v) == [type |-> "s", val |-> v]

NotStr(v) == [type |-> "i", val |-> v]

\* the property maps a GetAll reply or a PropertiesChanged signal carries
PropInputs ==
    { "Title" :> Str("Mail"),
      "Title" :> NotStr("7"),
      "Zzz" :> Str("Mail") }

\* property maps of several entries: every known name with a string, a known
\* name with a value that is no string beside one with a string, an unknown
\* name, and Status alone
UpdateInputs ==
    { ("Id" :> Str("i1")) @@ ("Title" :> Str("t1")) @@ ("Status" :> Str("Active"))
         @@ ("IconName" :> Str("ic1")) @@ ("IconThemePath" :> Str("/th")) @@ ("Menu" :> Str("/m")),
      ("Title" :> NotStr("7")) @@ ("IconName" :> Str("ic2")),
      "Zzz" :> Str("z"),
      "Status" :> Str("Passive") }

Interfaces == {"org.kde.StatusNotifierItem", "org.freedesktop.StatusNotifierItem", "org.other"}

ClickCodes == 0..9

FindLastSlash(s) ==
    IF \E i \in 1..Len(s) : s[i] = "/"
    THEN CHOOSE i \in 1..Len(s) : s[i] = "/" /\ \A j \in 1..Len(s) : s[j] = "/" => j <= i
    ELSE 0

\* tray.rs:117, 149, item.find('/'): the first '/' of s, 0 for None
FindSlash(s) ==
    IF \E i \in 1..Len(s) : s[i] = "/"
    THEN Min({i \in 1..Len(s) : s[i] = "/"})
    ELSE 0

\* tray.rs:118, 150, &item[..pos]
OwnerOf(s) == SubSeq(s, 1, FindSlash(s) - 1)

\* tray.rs:118, 150, &item[pos..]
PathOf(s) == SubSeq(s, FindSlash(s), Len(s))

KeyOf(s) == <<OwnerOf(s), PathOf(s)>>

\* the keys of the addresses that have one
Keys == {KeyOf(s) : s \in {a \in Addrs : FindSlash(a) # 0}}

\* the PropertiesChanged signals that arrive, as <<key, interface, map>>:
\* for each key one of the kde item interface with a new Title string, and
\* for one key one of each other interface and one of each other map
PropSignals ==
    {<<key, "org.kde.StatusNotifierItem", "Title" :> Str("News")>> : key \in Keys}
    \cup {<<KeyOf(<<"a", "/", "p">>), iface, "Title" :> Str("News")>> : iface \in Interfaces}
    \cup {<<KeyOf(<<"a", "/", "p">>), "org.kde.StatusNotifierItem", props>> : props \in PropInputs}

\* tray.rs:127-130, TrayItem::default() with owner, path and is_kde set
NewItem(owner, path, is_kde) ==
    [owner |-> owner, path |-> path, is_kde |-> is_kde,
     id |-> "", title |-> "", status |-> "", icon |-> "", icon_path |-> "", menu_path |-> ""]

\* NotifierList::add
NotifierAdd(list, ctx) == list \cup {ctx}

\* NotifierList::notify_data: a redraw request to each registrant
NotifyData(list) == <<[req |-> "notify_data", ctxs |-> list]>>

FireKeepsInterested(list) == list

\* tray.rs:137, 160, 197, what tray.interested.take() leaves in the cell
FireInterested(list) == {}

\* tray.rs:137, 160, 197, tray.interested.take().notify_data()
FireLog(list) == NotifyData(list)

MatchesKeyEither(item, owner, path) == item.owner = owner \/ item.path = path

\* tray.rs:158, 181, 411, the negation of `item.owner != owner || item.path != path`
MatchesKey(item, owner, path) == ~(item.owner # owner \/ item.path # path)

\* tray.rs:187-191, value.as_str().map(|v| field = v.into()) for the property name
UpdField(old, props, name) ==
    IF name \in DOMAIN props /\ props[name].type = "s" THEN props[name].val ELSE old

\* tray.rs:185-194
UpdateItem(item, props) ==
    [item EXCEPT !.id = UpdField(@, props, "Id"),
                 !.title = UpdField(@, props, "Title"),
                 !.icon = UpdField(@, props, "IconName"),
                 !.icon_path = UpdField(@, props, "IconThemePath"),
                 !.menu_path = UpdField(@, props, "Menu")]

\* tray.rs:179-196
HandleItemUpdateItems(its, owner, path, props) ==
    [k \in 1..Len(its) |->
        IF MatchesKey(its[k], owner, path) THEN UpdateItem(its[k], props) ELSE its[k]]

\* tray.rs:157-159
DelItems(its, owner, path) == SelectSeq(its, LAMBDA it : ~MatchesKey(it, owner, path))

PushItemNotYet(its, item) == its

\* tray.rs:134-136
PushItem(its, item) == Append(its, item)

Task(addr, is_kde, pc) == [addr |-> addr, is_kde |-> is_kde, pc |-> pc]

One(t) == SetToBag({t})

\* tray.rs:112-115, do_add_item spawns its task
Spawned(tasks, addrs, is_kde) == tasks (+) SetToBag({Task(a, is_kde, "start") : a \in addrs})

\* the keys live after an add of addr, applied at once
ExpectAdd(exp, addr) == IF FindSlash(addr) = 0 THEN exp ELSE exp \cup {KeyOf(addr)}

\* the keys live after the adds of addrs
ExpectAddAll(exp, addrs) == exp \cup {KeyOf(a) : a \in {b \in addrs : FindSlash(b) # 0}}

\* the keys live after a remove of addr
ExpectDel(exp, addr) == IF FindSlash(addr) = 0 THEN exp ELSE exp \ {KeyOf(addr)}

\* tray.rs:54-80: the replies to request_name and to add_match_no_cb.  The
\* two awaits are one step: between them only the PropertiesChanged receiver
\* is installed, and no such signal reaches the process before an item's match
\* rule exists.  started: PrimaryOwner and the watcher match is in place, so
\* the item receiver is installed and RegisterStatusNotifierHost is called
NsStartReply(who, started) ==
    /\ ns[who] = "starting"
    /\ ns' = [ns EXCEPT ![who] = IF started THEN "enumerating" ELSE "off"]
    /\ out' = IF started THEN <<[req |-> "register_host", who |-> who]>> ELSE <<>>
    /\ UNCHANGED <<wakeVars, notify, paintVars, items, interested, addTasks, expected>>
    /\ last' = [op |-> "ns_start", arg |-> <<>>]
    /\ UNCHANGED menuVars

\* The three steps that take item signals say nothing of `expected`: a
\* specification either keeps it as the replay of the signals or leaves it.

\* tray.rs:96-104: the replies to RegisterStatusNotifierHost and to
\* Get(RegisteredStatusNotifierItems), one step as nothing happens between
\* them: addrs is the set of addresses listed, none after an error reply
NsItemsReply(who, addrs) ==
    /\ ns[who] = "enumerating"
    /\ Len(items) + BagCardinality(addTasks) + Cardinality(addrs) <= MaxItems
    /\ ns' = [ns EXCEPT ![who] = "listening"]
    /\ addTasks' = Spawned(addTasks, addrs, who = "kde")
    /\ out' = <<>>
    /\ UNCHANGED <<wakeVars, notify, paintVars, items, interested>>
    /\ last' = [op |-> "ns_items", arg |-> <<>>]
    /\ UNCHANGED menuVars

\* tray.rs:82-93, the item receiver is installed
ItemReceiver(who) == ns[who] \in {"enumerating", "listening"}

\* tray.rs:73-76, a PropertiesChanged receiver is installed
PropReceiver == \E who \in Namespaces : ns[who] \in {"enumerating", "listening"}

\* tray.rs:88, 112-115: StatusNotifierItemRegistered(addr) from the watcher of who
SigItemRegistered(who, addr) ==
    /\ ItemReceiver(who)
    /\ Len(items) + BagCardinality(addTasks) < MaxItems
    /\ addTasks' = Spawned(addTasks, {addr}, who = "kde")
    /\ out' = <<>>
    /\ UNCHANGED <<wakeVars, notify, paintVars, ns, items, interested>>
    /\ last' = [op |-> "item_registered", arg |-> <<>>]
    /\ UNCHANGED menuVars

\* tray.rs:148-162, whether do_del_item gets past its parse
DelParsesAlways(addr) == TRUE

\* tray.rs:149-152, do_del_item goes on when the address has a '/'
DelParses(addr) == FindSlash(addr) # 0

\* tray.rs:89, 148-162: StatusNotifierItemUnregistered(addr), do_del_item
SigItemUnregistered(who, addr) ==
    /\ ItemReceiver(who)
    /\ items' = IF DelParses(addr) THEN DelItems(items, OwnerOf(addr), PathOf(addr)) ELSE items
    /\ interested' = IF DelParses(addr) THEN FireInterested(interested) ELSE interested
    /\ out' = IF DelParses(addr) THEN FireLog(interested) ELSE <<>>
    /\ UNCHANGED <<wakeVars, notify, paintVars, ns, addTasks>>
    /\ last' = [op |-> "item_unregistered", arg |-> <<>>]
    /\ UNCHANGED menuVars

\* tray.rs:115-125: the task's first poll: the parse, then the request for
\* the item's PropertiesChanged match
AddStart(t) ==
    /\ BagIn(t, addTasks)
    /\ t.pc = "start"
    /\ IF FindSlash(t.addr) = 0
       THEN /\ addTasks' = addTasks (-) One(t)
            /\ out' = <<>>
       ELSE /\ addTasks' = (addTasks (-) One(t)) (+) One([t EXCEPT !.pc = "add_match"])
            /\ out' = <<[req |-> "add_match", owner |-> OwnerOf(t.addr), path |-> PathOf(t.addr)]>>
    /\ UNCHANGED <<wakeVars, notify, paintVars, ns, items, interested, expected>>
    /\ last' = [op |-> "add_start", arg |-> <<>>]
    /\ UNCHANGED menuVars

\* tray.rs:125, the reply to add_match_no_cb is an error: the task ends
AddMatchFailed(t) ==
    /\ BagIn(t, addTasks)
    /\ t.pc = "add_match"
    /\ addTasks' = addTasks (-) One(t)
    /\ out' = <<>>
    /\ UNCHANGED <<wakeVars, notify, paintVars, ns, items, interested, expected>>
    /\ last' = [op |-> "add_match_failed", arg |-> <<>>]
    /\ UNCHANGED menuVars

\* tray.rs:125-141: the match is in place: the record is published, the
\* registry fires and GetAll is called
AddPublish(t) ==
    /\ BagIn(t, addTasks)
    /\ t.pc = "add_match"
    /\ items' = PushItem(items, NewItem(OwnerOf(t.addr), PathOf(t.addr), t.is_kde))
    /\ interested' = FireInterested(interested)
    /\ out' = FireLog(interested)
               \o <<[req |-> "get_all", owner |-> OwnerOf(t.addr), path |-> PathOf(t.addr),
                     iface |-> SniPath(t.is_kde)]>>
    /\ addTasks' = (addTasks (-) One(t)) (+) One([t EXCEPT !.pc = "get_all"])
    /\ UNCHANGED <<wakeVars, notify, paintVars, ns, expected>>
    /\ last' = [op |-> "add_publish", arg |-> <<>>]
    /\ UNCHANGED menuVars

\* tray.rs:141, the reply to GetAll is an error: the task ends
AddGetAllFailed(t) ==
    /\ BagIn(t, addTasks)
    /\ t.pc = "get_all"
    /\ addTasks' = addTasks (-) One(t)
    /\ out' = <<>>
    /\ UNCHANGED <<wakeVars, notify, paintVars, ns, items, interested, expected>>
    /\ last' = [op |-> "get_all_failed", arg |-> <<>>]
    /\ UNCHANGED menuVars

\* tray.rs:141-144, the reply to GetAll: handle_item_update, and the task ends
AddGetAllReply(t, props) ==
    /\ BagIn(t, addTasks)
    /\ t.pc = "get_all"
    /\ items' = HandleItemUpdateItems(items, OwnerOf(t.addr), PathOf(t.addr), props)
    /\ interested' = FireInterested(interested)
    /\ out' = FireLog(interested)
    /\ addTasks' = addTasks (-) One(t)
    /\ UNCHANGED <<wakeVars, notify, paintVars, ns, expected>>
    /\ last' = [op |-> "get_all_reply", arg |-> <<>>]
    /\ UNCHANGED menuVars

\* tray.rs:167-171, the interfaces handle_item_update_msg lets through
IsSniInterface(iface) ==
    iface = "org.kde.StatusNotifierItem" \/ iface = "org.freedesktop.StatusNotifierItem"

\* tray.rs:73-76, 164-199: a PropertiesChanged signal of sender key[1] and
\* path key[2].  The bus delivers it once a match rule covers it; the model
\* lets it arrive at any time, which adds only deliveries that find no record
SigPropertiesChanged(key, iface, props) ==
    /\ PropReceiver
    /\ items' = IF IsSniInterface(iface)
                THEN HandleItemUpdateItems(items, key[1], key[2], props) ELSE items
    /\ interested' = IF IsSniInterface(iface) THEN FireInterested(interested) ELSE interested
    /\ out' = IF IsSniInterface(iface) THEN FireLog(interested) ELSE <<>>
    /\ UNCHANGED <<wakeVars, notify, paintVars, ns, addTasks, expected>>
    /\ last' = [op |-> "properties_changed", arg |-> <<key, iface, props>>]
    /\ UNCHANGED menuVars

\* tray.rs:350-353, show registers the rendering context
Show(ctx) ==
    /\ interested' = NotifierAdd(interested, ctx)
    /\ out' = <<>>
    /\ UNCHANGED <<wakeVars, notify, paintVars, ns, items, addTasks, expected>>
    /\ last' = [op |-> "show", arg |-> <<>>]
    /\ UNCHANGED menuVars

\* tray.rs:396-403, the method (or scroll direction) of a click code, {} for `return`
ClickMethod(how) ==
    CASE how = 0 -> {"Activate"}
      [] how = 1 -> {"ContextMenu"}
      [] how = 2 -> {"SecondaryActivate"}
      [] how \in {5, 6} -> {"vertical"}
      [] how \in {7, 8} -> {"horizontal"}
      [] OTHER -> {}

\* tray.rs:420-424, the call the spawned task makes
ClickCall(item, method, how) ==
    IF how < 3
    THEN [req |-> "call", owner |-> item.owner, path |-> item.path, iface |-> SniPath(item.is_kde),
          member |-> method, args |-> <<"0", "0">>]
    ELSE [req |-> "call", owner |-> item.owner, path |-> item.path, iface |-> SniPath(item.is_kde),
          member |-> "Scroll", args |-> <<"15", method>>]

DoClickEveryMatch(its, owner, path, how) ==
    LET hit == SelectSeq(its, LAMBDA it : MatchesKey(it, owner, path)) IN
    IF ClickMethod(how) = {} THEN <<>>
    ELSE [k \in 1..Len(hit) |-> ClickCall(hit[k], CHOOSE m \in ClickMethod(how) : TRUE, how)]

\* tray.rs:395-431, the calls do_click issues: one, on the first record that
\* matches (the task it spawns makes the call at its first poll)
DoClickCalls(its, owner, path, how) ==
    LET hit == SelectSeq(its, LAMBDA it : MatchesKey(it, owner, path)) IN
    IF ClickMethod(how) = {} \/ hit = <<>> THEN <<>>
    ELSE <<ClickCall(hit[1], CHOOSE m \in ClickMethod(how) : TRUE, how)>>

\* tray.rs:395-431
DoClick(key, how) ==
    /\ out' = DoClickCalls(items, key[1], key[2], how)
    /\ UNCHANGED <<wakeVars, notify, paintVars, trayVars>>
    /\ last' = [op |-> "do_click", arg |-> <<key, how>>]
    /\ UNCHANGED menuVars

-----------------------------------------------------------------------------
(* Tray menu client: TrayPopup::get_size and render of tray.rs and the fetch
   task get_size spawns, for the popup descriptors of one item, which share
   its menu cache.  Lengths are in whole pixels. *)

\* the descriptors show() built for the item
Popups == {1, 2}

\* tray.rs:228-229, 311-313, the height pango reports for a line of text
TextHeight == 10

Entry(id, type, label) == [iter |-> TRUE, id |-> id, type |-> type, label |-> label]

\* an entry of a layout that is not a struct
NotIterable == [iter |-> FALSE]

\* the replies to GetLayout: the children of the root node
Layouts ==
    { <<>>,
      <<Entry(7, "standard", "Open"), NotIterable, Entry(8, "separator", "")>> }

\* tray.rs:209-213, TrayPopupMenu::default()
DefaultMenu == [items |-> <<>>, interested |-> {}]

GetSizeMenuNoPlaceholder(m) == m

\* tray.rs:232, 244-248, the cache after get_size: an empty one gets the placeholder
GetSizeMenu(m) == IF m = {} THEN {DefaultMenu} ELSE m

\* tray.rs:244-249, the fetch tasks after get_size
GetSizeTasks(m, tasks) == IF m = {} THEN tasks (+) One("start") ELSE tasks

GetSizeFetched(m, f) == IF m = {} THEN [f EXCEPT !.started = @ + 1] ELSE f

\* tray.rs:224-289
GetSize(p) ==
    /\ menu' = GetSizeMenu(menu)
    /\ fetchTasks' = GetSizeTasks(menu, fetchTasks)
    /\ fetched' = GetSizeFetched(menu, fetched)
    /\ out' = <<>>
    /\ last' = [op |-> "get_size", arg |-> <<p>>]
    /\ UNCHANGED <<wakeVars, notify, paintVars, trayVars, rendered_ids>>

\* tray.rs:301-302, menu.interested.add(runtime) on a cache that is there
RenderMenu(m, ctx) == {[c EXCEPT !.interested = NotifierAdd(@, ctx)] : c \in m}

\* tray.rs:309-325, the (min, max, id) of the labelled entries from pos down
RECURSIVE RenderIds(_, _)
RenderIds(its, pos) ==
    IF its = <<>> THEN <<>>
    ELSE IF Head(its).is_sep THEN RenderIds(Tail(its), pos + 9)
    ELSE <<[min |-> pos, max |-> pos + TextHeight, id |-> Head(its).id]>>
            \o RenderIds(Tail(its), pos + TextHeight + 5)

\* tray.rs:298-326, what one render appends to rendered_ids
RenderedNow(m) ==
    IF m = {} THEN <<>>
    ELSE LET its == (CHOOSE c \in m : TRUE).items IN
         RenderIds(its, 2 + TextHeight + (IF its = <<>> THEN 0 ELSE 9))

\* tray.rs:291-328, render: it ends with get_size
Render(p, ctx) ==
    /\ Len(rendered_ids[p]) + Len(RenderedNow(menu)) <= MaxRendered
    /\ rendered_ids' = [rendered_ids EXCEPT ![p] = @ \o RenderedNow(menu)]
    /\ menu' = GetSizeMenu(RenderMenu(menu, ctx))
    /\ fetchTasks' = GetSizeTasks(menu, fetchTasks)
    /\ fetched' = GetSizeFetched(menu, fetched)
    /\ out' = <<>>
    /\ last' = [op |-> "render", arg |-> <<p>>]
    /\ UNCHANGED <<wakeVars, notify, paintVars, trayVars>>

\* the vertical positions of a click: above the entries, the first line of
\* an entry, inside it, its last line, below the entries
ButtonYs == {0, 21, 25, 31, 40}

\* tray.rs:332-336, the recorded extents a click at y is not skipped for
ButtonHits(ids, y) == SelectSeq(ids, LAMBDA e : ~(y < e.min \/ y > e.max))

\* tray.rs:338-345, the Event call of the task spawned for each such extent
ButtonCalls(ids, y) ==
    [k \in 1..Len(ButtonHits(ids, y)) |->
        [req |-> "call", member |-> "Event", id |-> ButtonHits(ids, y)[k].id, event |-> "clicked"]]

\* tray.rs:330-347, button(x, y, button) on popup p
Button(p, y) ==
    /\ out' = ButtonCalls(rendered_ids[p], y)
    /\ last' = [op |-> "button", arg |-> <<p, y>>]
    /\ UNCHANGED <<wakeVars, notify, paintVars, trayVars, menuVars>>

\* tray.rs:249-252, the fetch task's first poll: it calls AboutToShow
FetchStart ==
    /\ BagIn("start", fetchTasks)
    /\ fetchTasks' = (fetchTasks (-) One("start")) (+) One("about_to_show")
    /\ out' = <<[req |-> "call", member |-> "AboutToShow"]>>
    /\ last' = [op |-> "fetch_start", arg |-> <<>>]
    /\ UNCHANGED <<wakeVars, notify, paintVars, trayVars, menu, rendered_ids, fetched>>

\* tray.rs:252-255, the reply to AboutToShow: an error ends the task, any
\* other reply is followed by the GetLayout call
FetchAboutToShowReply(ok) ==
    /\ BagIn("about_to_show", fetchTasks)
    /\ fetchTasks' = IF ok THEN (fetchTasks (-) One("about_to_show")) (+) One("get_layout")
                     ELSE fetchTasks (-) One("about_to_show")
    /\ fetched' = IF ok THEN [fetched EXCEPT !.layouts = @ + 1] ELSE fetched
    /\ out' = IF ok THEN <<[req |-> "call", member |-> "GetLayout"]>> ELSE <<>>
    /\ last' = [op |-> "about_to_show_reply", arg |-> <<ok>>]
    /\ UNCHANGED <<wakeVars, notify, paintVars, trayVars, menu, rendered_ids>>

\* tray.rs:258-278, the MenuItem of a layout entry
MenuItemOf(e) == [id |-> e.id, is_sep |-> e.type = "separator", label |-> e.label]

\* tray.rs:258-279, the entries pushed: one per entry that is a struct
Populate(its, contents) ==
    its \o [k \in 1..Len(SelectSeq(contents, LAMBDA e : e.iter)) |->
               MenuItemOf(SelectSeq(contents, LAMBDA e : e.iter)[k])]

\* NotifierList::notify_data, the registrants it leaves
NotifyDataLeaves(list) == {}

\* tray.rs:257-281, the cache after a layout arrived
FetchedMenu(m, contents) ==
    {[items |-> Populate(c.items, contents), interested |-> NotifyDataLeaves(c.interested)] : c \in m}

\* tray.rs:280, menu.interested.notify_data()
FetchedLog(m) == IF m = {} THEN <<>> ELSE NotifyData((CHOOSE c \in m : TRUE).interested)

\* tray.rs:254-284, the reply to GetLayout is an error or does not decode:
\* the task ends
FetchGetLayoutFailed ==
    /\ BagIn("get_layout", fetchTasks)
    /\ fetchTasks' = fetchTasks (-) One("get_layout")
    /\ out' = <<>>
    /\ last' = [op |-> "get_layout_failed", arg |-> <<>>]
    /\ UNCHANGED <<wakeVars, notify, paintVars, trayVars, menu, rendered_ids, fetched>>

\* tray.rs:254-284, the reply to GetLayout: the cache is populated, its
\* registry fires and the task ends
FetchGetLayoutReply(contents) ==
    /\ BagIn("get_layout", fetchTasks)
    /\ fetchTasks' = fetchTasks (-) One("get_layout")
    /\ menu' = FetchedMenu(menu, contents)
    /\ out' = FetchedLog(menu)
    /\ last' = [op |-> "get_layout_reply", arg |-> <<>>]
    /\ UNCHANGED <<wakeVars, notify, paintVars, trayVars, rendered_ids, fetched>>

\* tray.rs:379-387, TrayItem::default(): the cache is empty and the
\* descriptors show() builds have rendered nothing
InitMenu ==
    /\ menu = {}
    /\ rendered_ids = [p \in Popups |-> <<>>]
    /\ fetchTasks = EmptyBag
    /\ fetched = [started |-> 0, layouts |-> 0]

\* tray.rs:48-110, 350-353: the first show(), of context rt1, has run init
\* and registered its context
InitTray ==
    /\ ns = [who \in Namespaces |-> "starting"]
    /\ items = <<>>
    /\ interested = {"rt1"}
    /\ addTasks = EmptyBag
    /\ expected = {}

InitWake ==
    /\ now = 0
    /\ refresh_time = {}
    /\ refresh_notify = FALSE
    /\ wake_pc = "start"
    /\ wake_deadline = {}
    /\ requested = {}

Init ==
    /\ InitWake
    /\ InitPaint
    /\ InitTray
    /\ InitMenu
    /\ notify = FALSE
    /\ last = [op |-> "new", arg |-> 0]

Next ==
    \/ \E wake \in Instants : SetWakeAt(wake)
    \/ WakeStart
    \/ WakeSelectLeft
    \/ WakeSelectRight
    \/ WakeWaitNotified
    \/ AdvanceTime
    \/ TickTask

Spec == Init /\ [][Next]_vars

NextPaint ==
    \/ \E i \in 1..Len(Outputs) : OutputReady(i)
    \/ \E surf \in 1..MaxSurfaces, serial \in Serials, width \in Widths, height \in Heights :
          Configure(surf, serial, width, height)
    \/ \E surf \in 1..MaxSurfaces : Closed(surf)
    \/ RequestDraw
    \/ TickTask

SpecPaint == Init /\ [][NextPaint]_vars

TaskStates == {Task(a, k, pc) : a \in Addrs, k \in BOOLEAN, pc \in {"start", "add_match", "get_all"}}

\* the steps of the do_add_item tasks
AddTaskStep ==
    \/ \E t \in TaskStates : AddStart(t)
    \/ \E t \in TaskStates : AddMatchFailed(t)
    \/ \E t \in TaskStates : AddPublish(t)
    \/ \E t \in TaskStates : AddGetAllFailed(t)
    \/ \E t \in TaskStates, props \in PropInputs : AddGetAllReply(t, props)

\* the tray directory where the kde watcher answers and the freedesktop
\* watcher is not heard of
NextTray ==
    \/ \E ok \in BOOLEAN : NsStartReply("kde", ok)
    \/ \E addrs \in SUBSET Addrs : NsItemsReply("kde", addrs) /\ UNCHANGED expected
    \/ \E addr \in Addrs : SigItemRegistered("kde", addr) /\ UNCHANGED expected
    \/ \E addr \in Addrs : SigItemUnregistered("kde", addr) /\ UNCHANGED expected
    \/ AddTaskStep
    \/ \E sig \in PropSignals : SigPropertiesChanged(sig[1], sig[2], sig[3])
    \/ \E ctx \in Ctx : Show(ctx)

SpecTray == Init /\ [][NextTray]_vars

\* the membership of the directory, with the replay of the item signals kept
\* beside it
NextReplay ==
    \/ \E ok \in BOOLEAN : NsStartReply("kde", ok)
    \/ \E addrs \in SUBSET Addrs :
          NsItemsReply("kde", addrs) /\ expected' = ExpectAddAll(expected, addrs)
    \/ \E addr \in Addrs :
          SigItemRegistered("kde", addr) /\ expected' = ExpectAdd(expected, addr)
    \/ \E addr \in Addrs :
          SigItemUnregistered("kde", addr) /\ expected' = ExpectDel(expected, addr)
    \/ AddTaskStep

SpecReplay == Init /\ [][NextReplay]_vars

\* updates of the records of the directory: the replies to GetAll and the
\* PropertiesChanged signals carry maps of several properties
NextUpdate ==
    \/ NsStartReply("kde", TRUE)
    \/ \E addr \in Addrs : SigItemRegistered("kde", addr) /\ UNCHANGED expected
    \/ \E t \in TaskStates : AddStart(t)
    \/ \E t \in TaskStates : AddPublish(t)
    \/ \E t \in TaskStates, props \in UpdateInputs : AddGetAllReply(t, props)
    \/ \E key \in Keys, props \in UpdateInputs :
          SigPropertiesChanged(key, "org.kde.StatusNotifierItem", props)

SpecUpdate == Init /\ [][NextUpdate]_vars

\* clicks on the items the two watchers list when the host registers
NextClick ==
    \/ \E who \in Namespaces : NsStartReply(who, TRUE)
    \/ \E who \in Namespaces, addrs \in SUBSET Addrs : NsItemsReply(who, addrs) /\ UNCHANGED expected
    \/ \E t \in TaskStates : AddStart(t)
    \/ \E t \in TaskStates : AddPublish(t)
    \/ \E t \in TaskStates : AddGetAllFailed(t)
    \/ \E key \in Keys, how \in ClickCodes : DoClick(key, how)

SpecClick == Init /\ [][NextClick]_vars

\* the popups of one item: any interleaving of get_size, render and the
\* replies to the fetch task's calls
NextMenu ==
    \/ \E p \in Popups : GetSize(p)
    \/ \E p \in Popups, ctx \in Ctx : Render(p, ctx)
    \/ \E p \in Popups, y \in ButtonYs : Button(p, y)
    \/ FetchStart
    \/ \E ok \in BOOLEAN : FetchAboutToShowReply(ok)
    \/ FetchGetLayoutFailed
    \/ \E contents \in Layouts : FetchGetLayoutReply(contents)

SpecMenu == Init /\ [][NextMenu]_vars

\* the redraw signal: surfaces appear and are given a width, redraws are
\* requested, and tokio polls the tick task once its permit is stored
NextRedraw ==
    \/ \E i \in 1..Len(Outputs) : OutputReady(i)
    \/ \E surf \in 1..MaxSurfaces, serial \in Serials, width \in Widths :
          Configure(surf, serial, width, 2)
    \/ RequestDraw
    \/ TickTask

FairRedraw == Init /\ [][NextRedraw]_vars /\ WF_vars(TickTask)

\* tokio polls every woken task, and the clock does not stop
FairSpec == Spec /\ WF_vars(WakeTask) /\ WF_vars(AdvanceTime)

-----------------------------------------------------------------------------
(* Claims on the wake scheduler *)

\* a set_wake_at(d) call that found a strictly earlier deadline pending
LaterRequestStep ==
    /\ last'.op = "set_wake_at"
    /\ \E t \in refresh_time : t < last'.arg

\* C1: the stored deadline, if present, is the minimum of the deadlines
\* requested since it was last cleared (and absent when none was), and a
\* set_wake_at(d) made while a strictly earlier deadline is pending changes
\* neither the stored deadline nor the wake task's signal.
C1_EarliestWins ==
    [][ /\ refresh_time' = (IF requested' = {} THEN {} ELSE {Min(requested')})
        /\ LaterRequestStep => UNCHANGED <<refresh_time, refresh_notify>> ]_vars

C1_Witness ==
    /\ last.op = "set_wake_at"
    /\ Cardinality(requested) >= 2
    /\ \E t \in refresh_time : t < last.arg

\* C2: the wake task emits its redraw notification only when the clock has
\* reached the earliest deadline registered, and a later deadline registered
\* while an earlier one is pending changes nothing the task fires on: not the
\* stored deadline, the task's signal, its position, its timer, or the redraw
\* signal.
C2_NoEarlyFire ==
    [][ /\ last'.op = "wake_fire" =>
              /\ requested # {}
              /\ now >= Min(requested)
              /\ \A t \in refresh_time : now >= t
        /\ (notify' /\ ~notify) => last'.op = "wake_fire"
        /\ LaterRequestStep =>
              UNCHANGED <<refresh_time, refresh_notify, wake_pc, wake_deadline, notify, now>> ]_vars

C2_Witness ==
    /\ last.op = "wake_fire"
    /\ last.arg > 0
    /\ notify
    /\ refresh_time = {}

\* the wake task has a step to take: it is not suspended
WakeRunnable ==
    \/ wake_pc = "start"
    \/ wake_pc = "select" /\ (SleepReady(wake_deadline, now) \/ refresh_notify)
    \/ wake_pc = "wait" /\ refresh_notify

\* C3: every wake request is served: the wake task is never left suspended
\* once a requested deadline has elapsed, and under fair scheduling every
\* outstanding request is followed by a redraw notification.
C3_RequestServed ==
    /\ []((\E d \in requested : d <= now) => WakeRunnable)
    /\ (requested # {}) ~> (requested = {})

\* an earlier deadline was registered while the task sleeps on a later one
C3_Witness ==
    /\ wake_pc = "select"
    /\ refresh_notify
    /\ last.op = "set_wake_at"
    /\ \E d \in refresh_time : \E dl \in wake_deadline : d < dl /\ now < d

\* C12 as claimed: each time the race of the wake task resolves, by the
\* deadline elapsing or by a new deadline being registered, a redraw
\* notification is emitted.
C12_AsClaimed ==
    [][ last'.op \in {"wake_fire", "wake_preempt"} => notify' ]_vars

\* C12 amended: when the race resolves by the deadline elapsing the task
\* emits one redraw notification and clears the stored deadline; when it
\* resolves by a registration it emits none, and sleeps again until the
\* deadline stored by then.
C12_RaceResolved ==
    [][ /\ last'.op = "wake_fire" => notify' /\ refresh_time' = {}
        /\ last'.op = "wake_preempt" =>
              /\ notify' = notify
              /\ refresh_time' = refresh_time /\ refresh_time # {}
              /\ wake_pc' = "select"
              /\ wake_deadline' = refresh_time ]_vars

\* the race resolved by the registration of an earlier deadline: no redraw is
\* pending and the task sleeps until the earlier deadline
C12_Witness ==
    /\ last.op = "wake_preempt"
    /\ ~notify
    /\ wake_pc = "select"
    /\ wake_deadline = refresh_time
    /\ \E d \in wake_deadline : d > now /\ \E r \in requested : r > d

-----------------------------------------------------------------------------
(* Claims on painting *)

\* the requests of kind r in a log
Reqs(log, r) == SelectSeq(log, LAMBDA e : e.req = r)

\* the surfaces a tick's paint phase finds dirty: set_data ran first
PaintDirty(bs) == SelectSeq(SetData(bs), LAMBDA b : b.dirty)

\* the sum of height x stride over a sequence of surfaces
RECURSIVE SumBytes(_)
SumBytes(bs) ==
    IF bs = <<>> THEN 0 ELSE Head(bs).height * 4 * Head(bs).width + SumBytes(Tail(bs))

SurfsOf(log) == [k \in 1..Len(log) |-> log[k].surf]

IdsOf(bs) == [k \in 1..Len(bs) |-> bs[k].id]

\* C7 as claimed: with no dirty surface a paint phase resizes nothing and
\* commits nothing; with N dirty surfaces of any sizes it resizes the region
\* to the sum of their sizes and commits each of the N once.
C7_AsClaimed ==
    [][ last'.op = "tick" =>
          LET d == PaintDirty(bars) IN
          /\ Len(d) = 0 => Reqs(out', "resize") = <<>> /\ Reqs(out', "commit") = <<>>
          /\ Len(d) > 0 =>
                /\ Reqs(out', "resize") = <<[req |-> "resize", size |-> SumBytes(d)]>>
                /\ SurfsOf(Reqs(out', "commit")) = IdsOf(d) ]_vars

\* C7 amended: a paint phase whose dirty surfaces' sizes sum to zero (none is
\* dirty, or every dirty one has zero width or height) resizes nothing,
\* commits nothing and leaves the dirty flags set; one whose N dirty surfaces'
\* sizes sum to S > 0 resizes the region once, to S, and commits each of the N
\* once, in list order, clearing its flag.
C7_PaintAccounting ==
    [][ last'.op = "tick" =>
          LET d == PaintDirty(bars) IN
          /\ SumBytes(d) = 0 =>
                /\ Reqs(out', "resize") = <<>>
                /\ Reqs(out', "commit") = <<>>
                /\ \A k \in 1..Len(bars') : bars'[k].dirty
          /\ SumBytes(d) > 0 =>
                /\ Reqs(out', "resize") = <<[req |-> "resize", size |-> SumBytes(d)]>>
                /\ SurfsOf(Reqs(out', "commit")) = IdsOf(d)
                /\ \A k \in 1..Len(bars') : ~bars'[k].dirty ]_vars

\* a tick committed two surfaces, one of them of zero size
C7_Witness ==
    /\ last.op = "tick"
    /\ Len(Reqs(out, "commit")) = 2
    /\ \E k \in 1..Len(bars) : bars[k].width = 0
    /\ \E e \in {out[k] : k \in 1..Len(out)} : e.req = "resize" /\ e.size > 0

\* the surfaces that were created and are no longer in the active set
ClosedSurfs(bs, next) == {s \in 1..(next - 1) : \A k \in 1..Len(bs) : bs[k].id # s}

\* C16: a closed event removes its surface and no other bar; a configure
\* event for a surface that is closed leaves every bar as it was; a closed
\* surface never comes back to the active set and no render, attach or
\* commit is ever made for it.
C16_ClosedIsGone ==
    [][ /\ last'.op = "closed" =>
              bars' = SelectSeq(bars, LAMBDA b : b.id # last'.arg[1])
        /\ (last'.op = "configure" /\ last'.arg[1] \in ClosedSurfs(bars, nextSurf)) =>
              bars' = bars
        /\ \A s \in ClosedSurfs(bars, nextSurf) :
              /\ s \in ClosedSurfs(bars', nextSurf')
              /\ \A k \in 1..Len(out') :
                    out'[k].req \in {"render", "attach", "commit"} => out'[k].surf # s ]_vars

\* surface 1 was closed while surface 2 stayed; a configure event of width 3
\* for surface 1 arrived and surface 2 is still unsized and clean
C16_Witness ==
    /\ last.op = "configure" /\ last.arg[1] = 1 /\ last.arg[3] = 3
    /\ 1 \in ClosedSurfs(bars, nextSurf)
    /\ Len(bars) = 1 /\ bars[1].id = 2 /\ bars[1].width = 0 /\ ~bars[1].dirty

\* C20: a tick is one uninterrupted step of the tick task, taken with the
\* redraw signal pending and leaving it consumed; its requests begin with
\* the one update of the variables, every render, attach and commit comes
\* after it, there is at most one flush, and a flush comes last, after a
\* commit of every surface of the active set, all of them dirty in a tick.
C20_TickSequence ==
    [][ last'.op = "tick" =>
          /\ notify /\ ~notify'
          /\ Len(out') >= 1 /\ out'[1].req = "update"
          /\ Len(Reqs(out', "update")) = 1
          /\ Len(Reqs(out', "flush")) <= 1
          /\ \A k \in 1..Len(out') :
                out'[k].req = "flush" =>
                   /\ k = Len(out')
                   /\ \A j \in 1..Len(bars) :
                         \E i \in 2..(k - 1) : out'[i] = [req |-> "commit", surf |-> bars[j].id] ]_vars

\* a tick that updated, painted and committed two surfaces and then flushed
C20_Witness ==
    /\ last.op = "tick"
    /\ ~notify
    /\ Len(bars) = 2
    /\ Len(out) = 9
    /\ out[1].req = "update" /\ out[Len(out)].req = "flush"
    /\ out[5] = [req |-> "commit", surf |-> bars[1].id]
    /\ out[8] = [req |-> "commit", surf |-> bars[2].id]

\* C23: a surface that no configure event has reached is not rendered,
\* attached or committed by a tick.  Stated of the surfaces created by the
\* output_ready that a tick follows at once: the tick's requests name none
\* of them, whatever the other surfaces are.
C23_UnconfiguredNotPainted ==
    [][ (last.op = "output_ready" /\ last'.op = "tick") =>
          \A e \in {out[k] : k \in 1..Len(out)} :
             \A k \in 1..Len(out') :
                out'[k].req \in {"render", "attach", "commit"} => out'[k].surf # e.surf ]_vars

\* C24: in a tick that paints, the byte ranges of the surfaces painted are
\* handed out in the order of the surface list, each begins where the one
\* before it ends or later, so no two overlap, each lies within the size the
\* region was resized to, and each buffer is attached at the offset of its
\* range; in any state draw_now's layout gives a clean surface length 0.
C24_RangesDisjoint ==
    [][ /\ last'.op = "tick" =>
              LET r == Reqs(out', "render")
                  a == Reqs(out', "attach")
                  z == Reqs(out', "resize") IN
              r # <<>> =>
                 /\ Len(z) = 1
                 /\ SurfsOf(r) = IdsOf(bars)
                 /\ SurfsOf(a) = SurfsOf(r)
                 /\ \A i \in 1..Len(r) :
                       /\ 0 <= r[i].pos /\ 0 <= r[i].len
                       /\ r[i].pos + r[i].len <= z[1].size
                       /\ a[i].pos = r[i].pos
                       /\ \A j \in (i + 1)..Len(r) : r[i].pos + r[i].len <= r[j].pos
        /\ \A k \in 1..Len(bars') : ~bars'[k].dirty => ShmPos(bars')[k][2] = 0 ]_vars

\* a tick painted two sized surfaces: 8 bytes at 0 and 24 bytes at 8 of 32
C24_Witness ==
    /\ last.op = "tick"
    /\ Reqs(out, "resize") = <<[req |-> "resize", size |-> 32]>>
    /\ Len(Reqs(out, "render")) = 2
    /\ Reqs(out, "render")[1].pos = 0 /\ Reqs(out, "render")[1].len = 8
    /\ Reqs(out, "render")[2].pos = 8 /\ Reqs(out, "render")[2].len = 24

\* the steps that request a redraw
RedrawRequested == last'.op \in {"request_draw", "configure"}

C14_OnePerPair ==
    \A j, k \in 1..Len(bars) :
       bars[j].output = bars[k].output /\ bars[j].cfg = bars[k].cfg => j = k

\* the commits for surface surf in a log
CommitsOf(log, surf) == SelectSeq(log, LAMBDA e : e.req = "commit" /\ e.surf = surf)

\* the bars of identity surf
BarsOf(bs, surf) == SelectSeq(bs, LAMBDA b : b.id = surf)

\* what configure(serial, w, h) does to a surface of the active set
ConfigureStep ==
    last'.op = "configure" =>
       LET surf == last'.arg[1]
           serial == last'.arg[2]
           w == last'.arg[3]
           h == last'.arg[4] IN
       BarsOf(bars, surf) # <<>> =>
          /\ Len(bars') = Len(bars)
          /\ \A k \in 1..Len(bars) :
                bars'[k] = IF bars[k].id = surf
                           THEN [bars[k] EXCEPT !.width = w, !.height = h, !.dirty = TRUE]
                           ELSE bars[k]
          /\ out' = <<[req |-> "ack_configure", surf |-> surf, serial |-> serial]>>
          /\ notify'

\* C11 as claimed: a configure sets the surface's size and dirty flag, acks
\* the serial and requests a redraw, and the tick that follows commits that
\* surface exactly once and clears its dirty flag.
C11_AsClaimed ==
    [][ /\ ConfigureStep
        /\ (last.op = "configure" /\ last'.op = "tick" /\ BarsOf(bars, last.arg[1]) # <<>>) =>
              /\ Len(CommitsOf(out', last.arg[1])) = 1
              /\ \A k \in 1..Len(bars') : bars'[k].id = last.arg[1] => ~bars'[k].dirty ]_vars

\* C11 amended: a configure sets the surface's size and dirty flag, acks the
\* serial and requests a redraw; a tick commits each surface of the active
\* set exactly once and clears its dirty flag when the sizes of the surfaces
\* sum to more than zero, and commits none and leaves each dirty when they
\* sum to zero.
C11_ConfigureThenTick ==
    [][ /\ ConfigureStep
        /\ last'.op = "tick" =>
              \A k \in 1..Len(bars) :
                 /\ Len(bars') = Len(bars) /\ bars'[k].id = bars[k].id
                 /\ IF SumBytes(bars) > 0
                    THEN Len(CommitsOf(out', bars[k].id)) = 1 /\ ~bars'[k].dirty
                    ELSE Len(CommitsOf(out', bars[k].id)) = 0 /\ bars'[k].dirty ]_vars

\* a tick right after configure(1, 3, 2) on surface 1 committed it once
C11_Witness ==
    /\ last.op = "tick"
    /\ Len(CommitsOf(out, 1)) = 1
    /\ \E k \in 1..Len(bars) :
          bars[k].id = 1 /\ bars[k].width = 3 /\ bars[k].height = 2 /\ ~bars[k].dirty

-----------------------------------------------------------------------------
(* Claims on the tray directory *)

\* the (owner, path) keys of the records in the directory
LiveKeys(its) == {<<its[k].owner, its[k].path>> : k \in 1..Len(its)}

\* C4, the half of it that no bus reply can excuse: once every add task has
\* completed, each key in the directory is in the set obtained by applying
\* the registered and unregistered signals in the order they arrived, so a
\* key whose last signal was an unregister is not live.
C4_RemovedStaysRemoved ==
    addTasks = EmptyBag => LiveKeys(items) \subseteq expected

\* C5: the directory holds at most one record per (owner, path).
C5_UniqueKeys ==
    \A i, j \in 1..Len(items) :
        (items[i].owner = items[j].owner /\ items[i].path = items[j].path) => i = j

\* the redraw requests a step's log holds
Fired(log) == Reqs(log, "notify_data")

\* C6: a step in which the directory's registry fires leaves the registry
\* empty and asks for one redraw, of exactly the contexts registered when it
\* fired; show(ctx) registers ctx; a context enters the registry by its own
\* show only, and leaves it only by being notified.  So a context is
\* notified of a change iff it called show since the change before it.
C6_RegistryDrain ==
    [][ /\ Fired(out') # <<>> =>
              /\ interested' = {}
              /\ Fired(out') = <<[req |-> "notify_data", ctxs |-> interested]>>
        /\ Fired(out') = <<>> => interested \subseteq interested'
        /\ last'.op = "show" => \A c \in Ctx : Show(c) => c \in interested'
        /\ \A c \in interested' \ interested : last'.op = "show" /\ Show(c) ]_vars

\* a change notified both contexts, one of which registered after the start,
\* and drained the registry
C6_Witness ==
    /\ last.op \in {"add_publish", "item_unregistered", "get_all_reply", "properties_changed"}
    /\ Fired(out) = <<[req |-> "notify_data", ctxs |-> Ctx]>>
    /\ interested = {}

\* a PropertiesChanged signal of an item interface that carries a Title string
CarriesTitle(iface, props) ==
    /\ IsSniInterface(iface)
    /\ "Title" \in DOMAIN props
    /\ props["Title"].type = "s"

\* C9: when the add of address addr is processed, a record is appended whose
\* owner is the text of addr before its first '/' and whose path is the text
\* from that '/' on; a PropertiesChanged signal of owner and path that
\* carries Title = v sets the title of the records of that key to v, leaves
\* every other record as it was, and asks for exactly one redraw, of the
\* contexts registered.
C9_AddThenTitle ==
    [][ /\ last'.op = "add_publish" => \A t \in {x \in TaskStates : x.pc = "add_match"} : AddPublish(t) =>
              /\ Len(items') = Len(items) + 1
              /\ SubSeq(items', 1, Len(items)) = items
              /\ LET it == items'[Len(items')] IN
                 /\ it.owner \o it.path = t.addr
                 /\ \A k \in 1..Len(it.owner) : it.owner[k] # "/"
                 /\ it.path # <<>> /\ it.path[1] = "/"
        /\ (last'.op = "properties_changed" /\ CarriesTitle(last'.arg[2], last'.arg[3])) =>
              LET sig == last'.arg IN
                 /\ Len(items') = Len(items)
                 /\ \A k \in 1..Len(items) :
                       items'[k] = IF items[k].owner = sig[1][1] /\ items[k].path = sig[1][2]
                                   THEN [items[k] EXCEPT !.title = sig[3]["Title"].val]
                                   ELSE items[k]
                 /\ Fired(out') = <<[req |-> "notify_data", ctxs |-> interested]>> ]_vars

\* the record of address a/p/q, owner a and path /p/q, has its title from a
\* PropertiesChanged signal that a registered context was notified of, and
\* the record of another key keeps the title it had
C9_Witness ==
    /\ last = [op |-> "properties_changed",
               arg |-> <<KeyOf(<<"a", "/", "p", "/", "q">>), "org.kde.StatusNotifierItem",
                         "Title" :> Str("News")>>]
    /\ \E k \in 1..Len(items) :
          items[k].owner = <<"a">> /\ items[k].path = <<"/", "p", "/", "q">> /\ items[k].title = "News"
    /\ \E k \in 1..Len(items) : items[k].path = <<"/", "p">> /\ items[k].title = "Mail"
    /\ \E c \in Ctx : Fired(out) = <<[req |-> "notify_data", ctxs |-> {c}]>>

\* a step fired the directory's registry: one redraw request, of the
\* contexts registered when the step began, and the registry is left empty
FiredAll ==
    /\ Fired(out') = <<[req |-> "notify_data", ctxs |-> interested]>>
    /\ interested' = {}

\* a step neither fired the registry nor changed it or the directory
FiredNone ==
    /\ Fired(out') = <<>>
    /\ interested' = interested
    /\ items' = items

\* C22 as claimed: the publishing step of do_add_item, every do_del_item and
\* every handle_item_update fire the registry, and so does the end of an add
\* or a remove whose address has no '/'.
C22_AsClaimed ==
    [][ /\ last'.op \in {"add_publish", "get_all_reply", "item_unregistered"} => FiredAll
        /\ (last'.op = "properties_changed" /\ IsSniInterface(last'.arg[2])) => FiredAll
        /\ (last'.op = "add_start" /\ BagCardinality(addTasks') < BagCardinality(addTasks))
              => FiredAll ]_vars

\* C22: the publishing step of do_add_item, do_del_item of an address with a
\* '/' and every handle_item_update fire the registry: every context
\* registered at that moment is asked to redraw.  An add or a remove whose
\* address has no '/' ends without firing and changes nothing.
C22_FiresUnlessNoSlash ==
    [][ /\ last'.op \in {"add_publish", "get_all_reply"} => FiredAll
        /\ (last'.op = "properties_changed" /\ IsSniInterface(last'.arg[2])) => FiredAll
        /\ last'.op = "item_unregistered" =>
              \A addr \in Addrs :
                 SigItemUnregistered("kde", addr) =>
                    IF FindSlash(addr) # 0 THEN FiredAll ELSE FiredNone
        /\ (last'.op = "add_start" /\ BagCardinality(addTasks') < BagCardinality(addTasks))
              => FiredNone ]_vars

\* the removal of an address without '/' arrived while a/p was tracked and
\* rt1 was registered: nothing fired and rt1 is still registered
C22_Witness ==
    /\ last.op = "item_unregistered"
    /\ out = <<>>
    /\ interested = {"rt1"}
    /\ Len(items) = 1 /\ items[1].path = <<"/", "p">>

\* the add tasks whose GetAll call for key is awaiting its reply
FetchingKey(tasks, key) == {t \in BagToSet(tasks) : t.pc = "get_all" /\ KeyOf(t.addr) = key}

\* C17: the step of do_add_item that issues GetAll has the record of its
\* (owner, path) in the directory; while no item is removed, a record of the
\* key is there as long as the fetch is in flight, and a PropertiesChanged
\* signal of the key delivered meanwhile with a Title string sets the title
\* of the records of the key.
C17_PublishedBeforeFetch ==
    [][ /\ last'.op = "add_publish" =>
              /\ Len(out') > 0 /\ out'[Len(out')].req = "get_all"
              /\ Len(items') = Len(items) + 1
              /\ <<out'[Len(out')].owner, out'[Len(out')].path>>
                    = <<items'[Len(items')].owner, items'[Len(items')].path>>
        /\ \A key \in Keys : FetchingKey(addTasks', key) # {} => key \in LiveKeys(items')
        /\ ( /\ last'.op = "properties_changed"
             /\ CarriesTitle(last'.arg[2], last'.arg[3])
             /\ FetchingKey(addTasks, last'.arg[1]) # {} ) =>
              /\ \E k \in 1..Len(items') : <<items'[k].owner, items'[k].path>> = last'.arg[1]
              /\ \A k \in 1..Len(items') :
                    <<items'[k].owner, items'[k].path>> = last'.arg[1]
                       => items'[k].title = last'.arg[3]["Title"].val ]_vars

\* the title of a/p arrived by signal while the GetAll call of its add task
\* is still unanswered
C17_Witness ==
    /\ last.op = "properties_changed"
    /\ last.arg[1] = KeyOf(<<"a", "/", "p">>)
    /\ FetchingKey(addTasks, last.arg[1]) # {}
    /\ Len(items) = 1 /\ items[1].title = "t1" /\ items[1].icon = "ic1"

ClaimedFields ==
    { <<"Id", "id">>, <<"Title", "title">>, <<"Status", "status">>, <<"IconName", "icon">>,
      <<"IconThemePath", "icon_path">>, <<"Menu", "menu_path">> }

\* C13: an update for (owner, path) copies each known property present with
\* a string value into its field of the records of that key and leaves every
\* other field, and every other record, as it was.
C13_UpdateMapping ==
    [][ last'.op = "properties_changed" =>
          LET key == last'.arg[1]
              props == last'.arg[3] IN
          /\ Len(items') = Len(items)
          /\ \A k \in 1..Len(items) :
                IF items[k].owner = key[1] /\ items[k].path = key[2]
                THEN /\ items'[k].owner = items[k].owner
                     /\ items'[k].path = items[k].path
                     /\ items'[k].is_kde = items[k].is_kde
                     /\ \A pf \in ClaimedFields :
                           items'[k][pf[2]] =
                              IF pf[1] \in DOMAIN props /\ props[pf[1]].type = "s"
                              THEN props[pf[1]].val
                              ELSE items[k][pf[2]]
                ELSE items'[k] = items[k] ]_vars

\* the member do_click is to call for a click code, and the direction it
\* is to pass to Scroll, as C10 lists them
ClaimedMember(how) ==
    CASE how = 0 -> "Activate"
      [] how = 1 -> "ContextMenu"
      [] how = 2 -> "SecondaryActivate"
      [] OTHER -> "Scroll"

ClaimedDirection(how) == IF how \in {5, 6} THEN "vertical" ELSE "horizontal"

\* C10: do_click(owner, path, code) with a record of (owner, path) in the
\* directory and code in {0, 1, 2, 5, 6, 7, 8} issues exactly one call, on
\* the object of that owner and path: Activate, ContextMenu or
\* SecondaryActivate for 0, 1, 2, Scroll with direction vertical for 5 and 6
\* and horizontal for 7 and 8; with any other code, or with no such record,
\* it issues no call; the directory is unchanged either way.
C10_ClickDispatch ==
    [][ last'.op = "do_click" =>
          LET key == last'.arg[1]
              how == last'.arg[2] IN
             /\ UNCHANGED <<items, interested, addTasks>>
             /\ IF key \in LiveKeys(items) /\ how \in {0, 1, 2, 5, 6, 7, 8}
                THEN /\ Len(out') = 1
                     /\ out'[1].req = "call"
                     /\ out'[1].owner = key[1]
                     /\ out'[1].path = key[2]
                     /\ out'[1].member = ClaimedMember(how)
                     /\ how >= 5 => out'[1].args[2] = ClaimedDirection(how)
                ELSE out' = <<>> ]_vars

\* a wheel click on an item the directory holds two records of made one
\* Scroll call
C10_Witness ==
    /\ last.op = "do_click"
    /\ Len(out) = 1
    /\ out[1].req = "call" /\ out[1].member = "Scroll" /\ out[1].args[2] = "vertical"
    /\ Cardinality({k \in 1..Len(items) :
                      items[k].owner = out[1].owner /\ items[k].path = out[1].path}) = 2

-----------------------------------------------------------------------------
(* Claims on the tray menu client *)

\* C8: over any interleaving of get_size and render on the popups that
\* share a menu cache with the replies to the fetch task's calls, a call of
\* get_size or render leaves exactly one fetch task started, never a second
\* one, and at most one GetLayout call is made: exactly one once AboutToShow
\* has been answered without error.
C8_FetchOnce ==
    [][ /\ last'.op \in {"get_size", "render"} => fetched'.started = 1
        /\ fetched'.started <= 1
        /\ fetched'.layouts <= 1
        /\ (last'.op = "about_to_show_reply" /\ last'.arg = <<TRUE>>) => fetched'.layouts = 1
        /\ BagCardinality(fetchTasks') <= 1 ]_vars

\* get_size is called on the second popup while the fetch the first one
\* started awaits the reply to its GetLayout call
C8_Witness ==
    /\ last = [op |-> "get_size", arg |-> <<2>>]
    /\ BagIn("get_layout", fetchTasks)
    /\ menu = {DefaultMenu}
    /\ fetched = [started |-> 1, layouts |-> 1]

\* C15: whatever the reply to AboutToShow is, an error included, the fetch
\* task goes on to call GetLayout.
C15_AboutToShowIgnored ==
    [][ last'.op = "about_to_show_reply" =>
          /\ out' = <<[req |-> "call", member |-> "GetLayout"]>>
          /\ BagIn("get_layout", fetchTasks') ]_vars

\* C19: a click at y on a popup makes exactly one Event("clicked") call, with
\* the identifier of the entry whose recorded extent contains y, and none
\* when no recorded extent contains y, however often the popup was rendered.
C19_OneEventPerClick ==
    [][ last'.op = "button" =>
          LET ids == rendered_ids[last'.arg[1]]
              y == last'.arg[2]
              inside == {k \in 1..Len(ids) : ids[k].min <= y /\ y <= ids[k].max} IN
          IF inside = {} THEN out' = <<>>
          ELSE /\ Len(out') = 1
               /\ out'[1].member = "Event" /\ out'[1].event = "clicked"
               /\ \E k \in inside : out'[1].id = ids[k].id ]_vars

\* C21: when AboutToShow or GetLayout is answered by an error or a reply
\* that does not decode, the fetch task ends, no interest notification is
\* made, and the menu cache is as it was before get_size started the fetch:
\* empty, not fetched.
C21_FailedFetchRestores ==
    [][ ( \/ last'.op = "get_layout_failed"
          \/ last'.op = "about_to_show_reply" /\ last'.arg = <<FALSE>> ) =>
          /\ fetchTasks' = EmptyBag
          /\ out' = <<>>
          /\ menu' = {} ]_vars

=============================================================================
